---- MODULE Spec2Model ----
(***************************************************************************)
(* The date-keyed download-tracking ledger of nse_server: the Flask        *)
(* Ledger Service of main.py (one tracking.xlsx per year, read and written *)
(* whole by every request) and the reconciliation drivers of               *)
(* data_downloader.py and download_main.py that fill it.                   *)
(***************************************************************************)
EXTENDS Integers, Sequences, FiniteSets, TLC

(***************************************************************************)
(* Values.  A cell, a JSON value or a downloader result is a string; the   *)
(* Python None / JSON null is the string "null", which no path equals.     *)
(***************************************************************************)
None == "null"

\* Python truthiness of a cell or downloader result (None and "" are falsy).
Truthy(v) == v # None /\ v # ""

\* str(v) / f"{v}" of a value.
str(v) == IF v = None THEN "None" ELSE v

(***************************************************************************)
(* Calendar dates, as datetime.date computes them: a date is its proleptic *)
(* Gregorian ordinal (0001-01-01 is day 1).                                *)
(***************************************************************************)
is_leap(y) == y % 4 = 0 /\ (y % 100 # 0 \/ y % 400 = 0)

DAYS_IN_MONTH(y, m) ==
    IF m = 2 THEN (IF is_leap(y) THEN 29 ELSE 28)
    ELSE IF m \in {4, 6, 9, 11} THEN 30 ELSE 31

RECURSIVE days_before_month(_, _)
days_before_month(y, m) ==
    IF m = 1 THEN 0 ELSE days_before_month(y, m - 1) + DAYS_IN_MONTH(y, m - 1)

days_before_year(y) ==
    (y - 1) * 365 + (y - 1) \div 4 - (y - 1) \div 100 + (y - 1) \div 400

\* date(y, m, d).toordinal()
toordinal(y, m, d) == days_before_year(y) + days_before_month(y, m) + d

\* the year, month and day of an ordinal
year_of(n) ==
    LET g == (n * 400) \div 146097 + 1
    IN  IF days_before_year(g) >= n THEN g - 1
        ELSE IF days_before_year(g + 1) < n THEN g + 1 ELSE g

month_of(n) ==
    LET y == year_of(n)
        r == n - days_before_year(y)
    IN  CHOOSE m \in 1..12 :
            days_before_month(y, m) < r /\ r <= days_before_month(y, m) + DAYS_IN_MONTH(y, m)

day_of(n) ==
    LET y == year_of(n) IN n - days_before_year(y) - days_before_month(y, month_of(n))

\* date.weekday(): Monday is 0, Sunday is 6
weekday(n) == (n + 6) % 7

two_digits(k) == IF k < 10 THEN "0" \o ToString(k) ELSE ToString(k)

\* date.strftime("%Y-%m-%d")
strftime(n) ==
    ToString(year_of(n)) \o "-" \o two_digits(month_of(n)) \o "-" \o two_digits(day_of(n))

(***************************************************************************)
(* The model's bounds.                                                     *)
(***************************************************************************)
\* number of consecutive calendar dates the model tracks
NumDates == 2
\* number of file slots (file_1 .. file_NumTasks) a driver reconciles
NumTasks == 2

YEAR_TO_FETCH == 2026

\* first tracked day: Friday 2025-10-03, the third date of the 2026 calendar
FirstDay == toordinal(YEAR_TO_FETCH - 1, 10, 1) + 2

Days == FirstDay .. (FirstDay + NumDates - 1)

\* the date strings of the tracked days, as get_year_dates lists them
Dates == {strftime(n) : n \in Days}

\* the two dates the clients of the service name in their requests
SvcDates == {strftime(FirstDay), strftime(FirstDay + 1)}

(***************************************************************************)
(* The Ledger Store: Nse_files/<year>/tracking.xlsx.  A workbook is the    *)
(* sequence of its rows, row 1 being the header row; a row is the sequence *)
(* of its cells.  NoFile is the absent file.                               *)
(***************************************************************************)
VARIABLES
    folder,     \* os.path.exists(Nse_files/<year>)
    tracking,   \* the saved tracking.xlsx, NoFile when it does not exist
    last,       \* the last request served and the file before it
    pc,         \* per server thread: the handler's position
    req,        \* per server thread: the request being handled
    wb,         \* per server thread: the workbook loaded in memory
    calls,      \* number of UpdateStatus requests the threads have taken
    variant,    \* the driver running the pass: "per_date" or "slot_by_slot"
    pass,       \* number of reconciliation passes started
    dpc,        \* the driver's position in its pass
    di,         \* index of the current date in the calendar
    si,         \* index of the current file slot (download task)
    rstatus,    \* status of the attempt's GetStatus read, 0 when it got no response
    files_status, \* the row the read returned, the empty dict when it returned none
    file_data,  \* the downloader's result of the attempt
    data,       \* download_main's variable data: what it is bound to
    avail,      \* the pass's downloader outcomes: is there data for (date, slot)
    faults,     \* number of failures so far: of service requests, of downloaders
    obs,        \* record of the pass: UpdateStatus calls issued, the previous pass
    today,      \* date.today(), as an ordinal
    cal,        \* the last response of the calendar endpoint
    disk,       \* Nse_files/<year> of the other year arguments: folder and tracking.xlsx
    asked,      \* the last request that named such a year, and the disk before it
    inst,       \* per concurrent driver instance: its variant, position and attempt
    issued,     \* per (date, slot): number of UpdateStatus calls the instances issued
    file_list,  \* the Reporting Layer's file list, empty while it has fetched none
    pool        \* the Reporting Layer's pass over the symbols: batches, tasks, results

svc_vars == <<folder, tracking, last, pc, req, wb, calls>>
drv_vars == <<variant, pass, dpc, di, si, rstatus, files_status, file_data, data, avail, faults, obs>>
client_vars == <<inst, issued, file_list, pool>>
ext_vars == <<today, cal, disk, asked, client_vars>>
vars == <<folder, tracking, last, pc, req, wb, calls,
          variant, pass, dpc, di, si, rstatus, files_status, file_data, data, avail, faults, obs,
          today, cal, disk, asked,
          inst, issued, file_list, pool>>

NoFile == << >>

Range(f) == {f[i] : i \in DOMAIN f}

\* headers = ['date'] + [f'file_{i}' for i in range(1, 12)]
headers == <<"date">> \o [i \in 1..11 |-> "file_" \o ToString(i)]

\* a key that is no column is mapped to the first slot column
header_map_with_unknown(hs) ==
    [name \in Range(hs) \cup {"colour"} |->
        IF name \in Range(hs) THEN CHOOSE i \in DOMAIN hs : hs[i] = name ELSE 2]

\* header_map = {name: i + 1 for i, name in enumerate(headers)}
header_map(hs) == [name \in Range(hs) |-> CHOOSE i \in DOMAIN hs : hs[i] = name]

\* a row of empty cells, as wide as the header row
blank_row(ws) == [c \in DOMAIN ws[1] |-> None]

\* ws.cell(row=r, column=c, value=v): the cell is created when missing, and
\* openpyxl assigns the value only when it is not None
ws_cell(ws, r, c, v) ==
    LET grown == IF r > Len(ws) THEN Append(ws, blank_row(ws)) ELSE ws
    IN  IF v = None THEN grown ELSE [grown EXCEPT ![r][c] = v]

\* wb.save(file_path) followed by a later openpyxl.load_workbook(file_path):
\* an empty string is written as a cell without value and read back as None
wb_save(ws) == [r \in DOMAIN ws |-> [c \in DOMAIN ws[r] |-> IF ws[r][c] = "" THEN None ELSE ws[r][c]]]

\* row_date_str = str(row_data.get('date', ''))
row_date_str(ws, idx) == str(ws[idx][header_map(ws[1])["date"]])

\* the scan for date: the index of the first data row whose date string
\* equals it, 0 (Python None) when there is none
target_row_idx(ws, date) ==
    LET hits == {idx \in 2..Len(ws) : row_date_str(ws, idx) = date}
    IN  IF hits = {} THEN 0 ELSE CHOOSE idx \in hits : \A j \in hits : idx <= j

\* for key, value in updates.items(): if key in header_map: ws.cell(...)
RECURSIVE write_updates(_, _, _, _)
write_updates(ws, r, updates, keys) ==
    IF keys = {} THEN ws
    ELSE LET key == CHOOSE k \in keys : TRUE
             hm == header_map(ws[1])
             nxt == IF key \in DOMAIN hm THEN ws_cell(ws, r, hm[key], updates[key]) ELSE ws
         IN  write_updates(nxt, r, updates, keys \ {key})

\* the row is rebuilt from its date and the updates alone
update_existing_rebuilt(ws, idx, updates) ==
    LET col == header_map(ws[1])["date"]
        fresh == [ws EXCEPT ![idx] = [blank_row(ws) EXCEPT ![col] = ws[idx][col]]]
    IN  write_updates(fresh, idx, updates, DOMAIN updates)

\* Scenario A: update the existing row
update_existing(ws, idx, updates) == write_updates(ws, idx, updates, DOMAIN updates)

\* the new row is appended without its date
append_new_undated(ws, date, updates) ==
    write_updates(Append(ws, blank_row(ws)), Len(ws) + 1, updates, DOMAIN updates)

\* Scenario B: append a new row, its date taken from the URL
append_new(ws, date, updates) ==
    LET next_row == Len(ws) + 1
        hm == header_map(ws[1])
        dated == IF "date" \in DOMAIN hm THEN ws_cell(ws, next_row, hm["date"], date) ELSE ws
    IN  write_updates(dated, next_row, updates, DOMAIN updates)

\* every successful POST answers 200
post_logic_always_200(ws, date, updates) ==
    LET idx == target_row_idx(ws, date)
    IN  [ws |-> IF idx # 0 THEN update_existing(ws, idx, updates)
                ELSE append_new(ws, date, updates),
         status |-> 200]

\* the POST branch on a loaded workbook: the workbook to save and the status
post_logic(ws, date, updates) ==
    LET idx == target_row_idx(ws, date)
    IN  IF idx # 0
        THEN [ws |-> update_existing(ws, idx, updates), status |-> 200]
        ELSE [ws |-> append_new(ws, date, updates), status |-> 201]

\* found_data of the GET branch: the row as a dict of header to cell
found_data(ws, idx) == [name \in Range(ws[1]) |-> ws[idx][header_map(ws[1])[name]]]

\* the updates mapping of a request without a (non-empty) JSON body
NoUpdates == << >>

(***************************************************************************)
(* The Ledger Service, one request at a time: each action is one whole     *)
(* Flask handler of main.py.  last records the request, its status and the *)
(* file as it was before the request.                                      *)
(***************************************************************************)
\* the slot names and values the model's clients send
UpdateKeys == {"file_1", "file_2"}
UpdateVals == {None, "", "a.csv", "b.csv"}
UpdatesOver(keys, vals) == UNION {[K -> vals] : K \in SUBSET keys}
Updates == UpdatesOver(UpdateKeys, UpdateVals)

NoCall == [op |-> "none", date |-> "", updates |-> NoUpdates, status |-> 0,
           before |-> NoFile, was_folder |-> FALSE, repeat |-> FALSE, prev_status |-> 0]

Served(op, date, updates, status) ==
    [op |-> op, date |-> date, updates |-> updates, status |-> status,
     before |-> tracking, was_folder |-> folder,
     repeat |-> (last.op = op /\ last.date = date /\ last.updates = updates),
     prev_status |-> last.status]

\* create_year_folder on the folder's existence: the status it answers and
\* the existence it leaves
year_folder(exists) == [status |-> IF exists THEN 200 ELSE 201, folder |-> TRUE]

\* GET or POST /api/<year>: EnsureYear
create_year_folder ==
    /\ folder' = year_folder(folder).folder
    /\ last' = Served("EnsureYear", "", NoUpdates, year_folder(folder).status)
    /\ UNCHANGED <<tracking, pc, req, wb, calls>>
    /\ UNCHANGED <<drv_vars, ext_vars>>

\* a new workbook is saved whether or not the file exists
track_date_overwriting(file) ==
    [status |-> IF file = NoFile THEN 201 ELSE 200, file |-> wb_save(<<headers>>)]

\* create_track_date on the saved file: the status it answers and the file
\* it leaves
track_date(file) ==
    IF file = NoFile THEN [status |-> 201, file |-> wb_save(<<headers>>)]
    ELSE [status |-> 200, file |-> file]

\* GET or POST /api/<year>/track_date: EnsureLedger
create_track_date ==
    /\ folder' = TRUE
    /\ tracking' = track_date(tracking).file
    /\ last' = Served("EnsureLedger", "", NoUpdates, track_date(tracking).status)
    /\ UNCHANGED <<pc, req, wb, calls>>
    /\ UNCHANGED <<drv_vars, ext_vars>>

\* GET /api/<year>/tracking: ListLedger
read_tracking_sheet ==
    /\ last' = Served("ListLedger", "", NoUpdates, IF tracking = NoFile THEN 404 ELSE 200)
    /\ UNCHANGED <<folder, tracking, pc, req, wb, calls>>
    /\ UNCHANGED <<drv_vars, ext_vars>>

\* a POST for a year without ledger creates the ledger and the row
tracking_by_date_creating(file, method, date, updates) ==
    IF method = "POST" /\ updates # NoUpdates
    THEN LET r == post_logic(IF file = NoFile THEN <<headers>> ELSE file, date, updates)
         IN  [status |-> r.status, file |-> wb_save(r.ws)]
    ELSE [status |-> 404, file |-> file]

\* the whole handler of /api/<year>/tracking/<date> on the saved file: the
\* status it answers and the file it leaves
tracking_by_date(file, method, date, updates) ==
    IF file = NoFile THEN [status |-> 404, file |-> file]
    ELSE IF method = "POST"
         THEN IF updates = NoUpdates THEN [status |-> 400, file |-> file]
              ELSE LET r == post_logic(file, date, updates)
                   IN  [status |-> r.status, file |-> wb_save(r.ws)]
         ELSE [status |-> IF target_row_idx(file, date) # 0 THEN 200 ELSE 404, file |-> file]

\* a request that carries a mapping is served as a POST
manage_tracking_by_date_body_writes(method, date, updates) ==
    LET r == tracking_by_date(tracking, IF updates # NoUpdates THEN "POST" ELSE method,
                              date, updates)
    IN  /\ tracking' = r.file
        /\ last' = Served(IF method = "POST" THEN "UpdateStatus" ELSE "GetStatus",
                          date, updates, r.status)
        /\ UNCHANGED <<folder, pc, req, wb, calls>>
        /\ UNCHANGED <<drv_vars, ext_vars>>

\* GET (GetStatus) or POST (UpdateStatus) /api/<year>/tracking/<date>
manage_tracking_by_date(method, date, updates) ==
    LET r == tracking_by_date(tracking, method, date, updates)
    IN  /\ tracking' = r.file
        /\ last' = Served(IF method = "POST" THEN "UpdateStatus" ELSE "GetStatus",
                          date, updates, r.status)
        /\ UNCHANGED <<folder, pc, req, wb, calls>>
        /\ UNCHANGED <<drv_vars, ext_vars>>

GetStatus == \E date \in SvcDates : manage_tracking_by_date("GET", date, NoUpdates)

UpdateStatus == \E date \in SvcDates, updates \in Updates : manage_tracking_by_date("POST", date, updates)

(***************************************************************************)
(* The Trading-Calendar Generator: GET /api/download/<int:year>.           *)
(***************************************************************************)
\* number of consecutive years the clients ask calendars for
NumYears == 4

\* the requested years: from two years before YEAR_TO_FETCH on
CalYears == (YEAR_TO_FETCH - 2) .. (YEAR_TO_FETCH - 3 + NumYears)

\* the days of a year on which the server's clock is read: around the turn
\* of the year, around October 1, and in between
ClockDays == {<<1, 1>>, <<1, 2>>, <<3, 1>>, <<9, 30>>, <<10, 1>>, <<10, 2>>, <<12, 31>>}

\* the values of date.today()
Todays == {toordinal(y, md[1], md[2]) : y \in CalYears, md \in ClockDays}

\* start_date = date(year - 1, 10, 1)
start_date(year) == toordinal(year - 1, 10, 1)

\* the calendar of the current year ends today
end_date_today(year, now) ==
    IF year = year_of(now) THEN now ELSE toordinal(year, 12, 31)

\* end_date: yesterday for the current year, else December 31 of the year
end_date(year, now) ==
    IF year = year_of(now) THEN now - 1 ELSE toordinal(year, 12, 31)

\* the loop stops before the end date: while current_date < end_date
all_dates_exclusive(first, end) ==
    [i \in 1..(end - first) |-> strftime(first + i - 1)]

\* the list the while loop builds: starting at current_date = start_date it
\* appends current_date.strftime(...) and adds a day while current_date <=
\* end_date, so its i-th element is the date i - 1 days after start_date
all_dates(first, end) ==
    [i \in 1..(end - first + 1) |-> strftime(first + i - 1)]

NoCal == [status |-> 0, requested_year |-> 0, is_current_year |-> FALSE,
          range_start |-> "", range_end |-> "", total_days |-> 0, dates |-> << >>]

\* the JSON response of get_year_dates; date() raises outside years 1 to 9999
year_dates(year, now) ==
    IF year - 1 < 1 \/ year > 9999 THEN [NoCal EXCEPT !.status = 400]
    ELSE LET listed == all_dates(start_date(year), end_date(year, now))
         IN  [status |-> 200, requested_year |-> year,
              is_current_year |-> (year = year_of(now)),
              range_start |-> strftime(start_date(year)),
              range_end |-> strftime(end_date(year, now)),
              total_days |-> Len(listed), dates |-> listed]

(***************************************************************************)
(* The <year> argument of the routes.  A year argument is the sequence of  *)
(* its characters; each one names a folder Nse_files/<year> of its own.    *)
(***************************************************************************)
\* the characters str.isdigit accepts (of the ASCII characters)
Digits == {"0", "1", "2", "3", "4", "5", "6", "7", "8", "9"}

\* year.isdigit()
isdigit(year) == Len(year) > 0 /\ \A i \in DOMAIN year : year[i] \in Digits

\* the year arguments the clients send besides 2026: 26, 20x6 and 20260
YearArgs == {<<"2", "6">>, <<"2", "0", "x", "6">>, <<"2", "0", "2", "6", "0">>}

\* the folder of a year argument and its tracking.xlsx
NoStore == [folder |-> FALSE, tracking |-> NoFile]

NoAsk == [year |-> << >>, op |-> "none", status |-> 0, before |-> [y \in YearArgs |-> NoStore]]

Threads == {1, 2}

\* the calendar the drivers walk: the date strings in ascending order
dates == [i \in 1..NumDates |-> strftime(FirstDay + i - 1)]

\* the empty dict {"data": {}} of a read that returned no row
NoRow == << >>

\* downloader outcomes: for each date index and slot index, is there data
Outcomes == [(1..NumDates) \X (1..NumTasks) -> BOOLEAN]
NoData == [c \in (1..NumDates) \X (1..NumTasks) |-> FALSE]

NoSent == [date |-> "", key |-> "", value |-> None, was |-> None]
NoPass == [nposts |-> 0, sent |-> NoSent, invoked |-> {}, skipped |-> {},
           tried |-> {}, kinds |-> {},
           prev_avail |-> NoData, prev_variant |-> "none", prev_tracking |-> NoFile,
           prev_dpc |-> "idle"]

NoReq == [op |-> "none", date |-> "", updates |-> NoUpdates, status |-> 0, with |-> {}]

\* number of driver instances started against the same year
NumInstances == 2
Instances == 1..NumInstances

\* a driver instance that has not been started
Idle == [v |-> "per_date", dpc |-> "idle", di |-> 1, si |-> 1, rstatus |-> 0,
         files_status |-> NoRow, file_data |-> None, data |-> "unbound"]

\* number of symbol tasks that may be inside the guarded section at once
MAX_WORKERS == 2
\* largest batch size of a pass, largest number of symbols of a pass
MaxBatchSize == 3
MaxSymbols == 6
\* the symbols, by their position in the list load_symbols() returns
Symbols == 1..MaxSymbols
\* the async pass of regrate_main.py, the thread-pool pass of
\* nse_participant_tv_downloader.py
PoolKinds == {"async", "threads"}

NoResult == [symbol |-> 0, status |-> "none"]
\* the Reporting Layer before its pass
NoPool == [kind |-> "async", n |-> 0, raising |-> {}, batch_size |-> 1, pc |-> "idle", i |-> 0,
           task |-> [s \in Symbols |-> "none"], result |-> [s \in Symbols |-> NoResult],
           completed |-> << >>, all_results |-> << >>]

\* the state after construction, but for the server's clock
InitStore ==
    /\ folder = FALSE
    /\ tracking = NoFile
    /\ last = NoCall
    /\ pc = [t \in Threads |-> "idle"]
    /\ req = [t \in Threads |-> NoReq]
    /\ wb = [t \in Threads |-> NoFile]
    /\ calls = 0
    /\ variant = "per_date"
    /\ pass = 0
    /\ dpc = "idle"
    /\ di = 1
    /\ si = 1
    /\ rstatus = 0
    /\ files_status = NoRow
    /\ file_data = None
    /\ data = "unbound"
    /\ avail = NoData
    /\ faults = 0
    /\ obs = NoPass
    /\ cal = NoCal
    /\ disk = [y \in YearArgs |-> NoStore]
    /\ asked = NoAsk
    /\ inst = [k \in Instances |-> Idle]
    /\ issued = [c \in (1..NumDates) \X (1..NumTasks) |-> 0]
    /\ file_list = << >>
    /\ pool = NoPool

\* the server and the drivers run on the day after the last tracked date
Init == InitStore /\ today = FirstDay + NumDates

\* the server's clock reads any of the days
InitCal == InitStore /\ today \in Todays

\* GET /api/download/<year>
get_year_dates(year) ==
    /\ cal' = year_dates(year, today)
    /\ UNCHANGED <<svc_vars, drv_vars, today, disk, asked, client_vars>>

NextCal == \E year \in CalYears : get_year_dates(year)

SpecCal == InitCal /\ [][NextCal]_vars

(***************************************************************************)
(* The Ledger Service under app.run(debug=True): the development server    *)
(* serves each request on a thread of its own, so the handlers' load /     *)
(* modify / save steps on tracking.xlsx interleave.                        *)
(***************************************************************************)
\* number of UpdateStatus requests the threads take in one behaviour
MaxCalls == 3

\* the update mappings of the concurrent clients: one slot, one path
ConcUpdates == {u \in UpdatesOver(UpdateKeys, {"a.csv", "b.csv"}) : Cardinality(DOMAIN u) = 1}

InFlight(t) == pc[t] \in {"loaded", "modified", "creating"}

\* request t starts now: it overlaps the requests in flight, and no longer
\* overlaps the requests that had overlapped the thread's previous one
Starting(t, r) ==
    [u \in Threads |->
        IF u = t THEN [r EXCEPT !.with = {v \in Threads \ {t} : InFlight(v)}]
        ELSE [req[u] EXCEPT !.with = @ \ {t}]]

\* manage_tracking_by_date, POST: os.path.exists and openpyxl.load_workbook
post_load(t, date, updates) ==
    /\ pc[t] = "idle"
    /\ calls < MaxCalls
    /\ calls' = calls + 1
    /\ IF tracking = NoFile
       THEN /\ pc' = [pc EXCEPT ![t] = "done"]
            /\ req' = Starting(t, [NoReq EXCEPT !.op = "UpdateStatus", !.date = date,
                                                !.updates = updates, !.status = 404])
            /\ UNCHANGED wb
       ELSE /\ pc' = [pc EXCEPT ![t] = "loaded"]
            /\ req' = Starting(t, [NoReq EXCEPT !.op = "UpdateStatus", !.date = date,
                                                !.updates = updates])
            /\ wb' = [wb EXCEPT ![t] = tracking]
    /\ UNCHANGED <<folder, tracking, last>>
    /\ UNCHANGED <<drv_vars, ext_vars>>

\* manage_tracking_by_date, POST: the scan and the cell writes, in memory
post_modify(t) ==
    /\ pc[t] = "loaded"
    /\ IF req[t].updates = NoUpdates
       THEN /\ pc' = [pc EXCEPT ![t] = "done"]
            /\ req' = [req EXCEPT ![t].status = 400]
            /\ UNCHANGED wb
       ELSE LET r == post_logic(wb[t], req[t].date, req[t].updates)
            IN  /\ pc' = [pc EXCEPT ![t] = "modified"]
                /\ req' = [req EXCEPT ![t].status = r.status]
                /\ wb' = [wb EXCEPT ![t] = r.ws]
    /\ UNCHANGED <<folder, tracking, last, calls>>
    /\ UNCHANGED <<drv_vars, ext_vars>>

\* manage_tracking_by_date, POST: wb.save(file_path) and the response
post_save(t) ==
    /\ pc[t] = "modified"
    /\ tracking' = wb_save(wb[t])
    /\ pc' = [pc EXCEPT ![t] = "done"]
    /\ UNCHANGED <<folder, last, req, wb, calls>>
    /\ UNCHANGED <<drv_vars, ext_vars>>

\* create_track_date: the two os.path.exists tests and os.makedirs
track_date_check(t) ==
    /\ pc[t] = "idle"
    /\ folder' = TRUE
    /\ IF tracking = NoFile
       THEN /\ pc' = [pc EXCEPT ![t] = "creating"]
            /\ req' = Starting(t, [NoReq EXCEPT !.op = "EnsureLedger"])
       ELSE /\ pc' = [pc EXCEPT ![t] = "done"]
            /\ req' = Starting(t, [NoReq EXCEPT !.op = "EnsureLedger", !.status = 200])
    /\ UNCHANGED <<tracking, last, wb, calls>>
    /\ UNCHANGED <<drv_vars, ext_vars>>

\* create_track_date: the new workbook with its header row is saved
track_date_create(t) ==
    /\ pc[t] = "creating"
    /\ tracking' = wb_save(<<headers>>)
    /\ pc' = [pc EXCEPT ![t] = "done"]
    /\ req' = [req EXCEPT ![t].status = 201]
    /\ UNCHANGED <<folder, last, wb, calls>>
    /\ UNCHANGED <<drv_vars, ext_vars>>

\* the response has reached the client; the thread serves another request
respond(t) ==
    /\ pc[t] = "done"
    /\ pc' = [pc EXCEPT ![t] = "idle"]
    /\ req' = [req EXCEPT ![t] = NoReq]
    /\ wb' = [wb EXCEPT ![t] = NoFile]
    /\ UNCHANGED <<folder, tracking, last, calls>>
    /\ UNCHANGED <<drv_vars, ext_vars>>

PostLoad == \E t \in Threads, date \in SvcDates, updates \in ConcUpdates : post_load(t, date, updates)
PostModify == \E t \in Threads : post_modify(t)
PostSave == \E t \in Threads : post_save(t)
TrackDateCheck == \E t \in Threads : track_date_check(t)
TrackDateCreate == \E t \in Threads : track_date_create(t)
Respond == \E t \in Threads : respond(t)

NextConc ==
    \/ PostLoad
    \/ PostModify
    \/ PostSave
    \/ TrackDateCheck
    \/ TrackDateCreate
    \/ Respond

SpecConc == Init /\ [][NextConc]_vars

Next ==
    \/ create_year_folder
    \/ create_track_date
    \/ read_tracking_sheet
    \/ GetStatus
    \/ UpdateStatus

Spec == Init /\ [][Next]_vars

(***************************************************************************)
(* The Ledger Service with clients whose status reads carry a JSON body,   *)
(* as requests.get(url, json=payload) of download_main.py does.            *)
(***************************************************************************)
\* GET /api/<year>/tracking/<date> with a body of slot values
GetStatusWithBody ==
    \E date \in SvcDates, updates \in ConcUpdates :
        manage_tracking_by_date("GET", date, updates)

\* POST /api/<year>/tracking/<date> with a body of one slot value
UpdateOneSlot ==
    \E date \in SvcDates, updates \in ConcUpdates :
        manage_tracking_by_date("POST", date, updates)

NextReads ==
    \/ create_track_date
    \/ read_tracking_sheet
    \/ GetStatus
    \/ GetStatusWithBody
    \/ UpdateOneSlot

SpecReads == Init /\ [][NextReads]_vars

(***************************************************************************)
(* The Ledger Service with clients whose POST may come without a body.     *)
(* What request.get_json() does then depends on the installed Werkzeug:    *)
(* before 2.1 it returns None for a request whose content type is not      *)
(* JSON, from 2.1 on it raises an HTTP error (400, later 415), which the   *)
(* handler's `except Exception` turns into a 500 answer.                   *)
(***************************************************************************)
\* the request body: none at all, or a JSON mapping
NoBody == [sent |-> FALSE, mapping |-> NoUpdates]
Bodies == {NoBody} \cup {[sent |-> TRUE, mapping |-> u] : u \in ConcUpdates \cup {NoUpdates}}

\* request.get_json(): the mapping, None for no body, or an exception raised
get_json(body, strict) ==
    IF ~body.sent THEN [raised |-> strict, value |-> NoUpdates]
    ELSE [raised |-> FALSE, value |-> body.mapping]

\* the POST handler on the saved file, from the request's body on
post_with_body(file, date, body, strict) ==
    IF file = NoFile THEN [status |-> 404, file |-> file]
    ELSE LET json == get_json(body, strict)
         IN  IF json.raised THEN [status |-> 500, file |-> file]
             ELSE tracking_by_date(file, "POST", date, json.value)

\* POST /api/<year>/tracking/<date> with any body, on either kind of build
UpdateStatusAnyBody ==
    \E date \in SvcDates, body \in Bodies, strict \in BOOLEAN :
        LET r == post_with_body(tracking, date, body, strict)
        IN  /\ tracking' = r.file
            /\ last' = Served("UpdateStatus", date, get_json(body, strict).value, r.status)
            /\ UNCHANGED <<folder, pc, req, wb, calls>>
            /\ UNCHANGED <<drv_vars, ext_vars>>

NextBody ==
    \/ create_track_date
    \/ GetStatus
    \/ UpdateStatusAnyBody

SpecBody == Init /\ [][NextBody]_vars

(***************************************************************************)
(* The Ledger Service with clients whose JSON body may name any key: the   *)
(* key "date" of the header row, a slot, a key that is no column.          *)
(***************************************************************************)
\* number of data rows up to which the clients go on posting
MaxRows == 3

\* the values a client gives each key; request.get_json() takes any mapping
KeyVals(key) ==
    IF key = "date" THEN SvcDates \cup {None}
    ELSE IF key = "file_1" THEN {"a.csv", "b.csv"} ELSE {"red"}

\* updates = request.get_json(): the non-empty mappings over the three keys
KeyedUpdates ==
    UNION {{u \in [K -> UNION {KeyVals(k) : k \in K}] : \A k \in K : u[k] \in KeyVals(k)} :
               K \in (SUBSET {"date", "file_1", "colour"}) \ {{}}}

\* POST /api/<year>/tracking/<date> with a body naming any keys
UpdateAnyKeys ==
    \E date \in SvcDates, updates \in KeyedUpdates :
        /\ Len(tracking) <= MaxRows
        /\ manage_tracking_by_date("POST", date, updates)

NextKeys ==
    \/ create_track_date
    \/ GetStatus
    \/ UpdateAnyKeys

SpecKeys == Init /\ [][NextKeys]_vars

(***************************************************************************)
(* The Ledger Service asked about other year arguments: every handler      *)
(* starts with the check of year.isdigit().                                *)
(***************************************************************************)
\* the handler has answered status and left store st for the year
answered(year, op, status, st) ==
    /\ disk' = [disk EXCEPT ![year] = st]
    /\ asked' = [year |-> year, op |-> op, status |-> status, before |-> disk]
    /\ UNCHANGED <<svc_vars, drv_vars, today, cal, client_vars>>

\* GET or POST /api/<year>
create_year_folder_of(year) ==
    IF ~isdigit(year) THEN answered(year, "EnsureYear", 400, disk[year])
    ELSE LET r == year_folder(disk[year].folder)
         IN  answered(year, "EnsureYear", r.status, [disk[year] EXCEPT !.folder = r.folder])

\* GET or POST /api/<year>/track_date
create_track_date_of(year) ==
    IF ~isdigit(year) THEN answered(year, "EnsureLedger", 400, disk[year])
    ELSE LET r == track_date(disk[year].tracking)
         IN  answered(year, "EnsureLedger", r.status, [folder |-> TRUE, tracking |-> r.file])

\* GET /api/<year>/tracking
read_tracking_sheet_of(year) ==
    IF ~isdigit(year) THEN answered(year, "ListLedger", 400, disk[year])
    ELSE answered(year, "ListLedger", IF disk[year].tracking = NoFile THEN 404 ELSE 200,
                  disk[year])

\* GET or POST /api/<year>/tracking/<date>
manage_tracking_by_date_of(year, method, date, updates) ==
    LET op == IF method = "POST" THEN "UpdateStatus" ELSE "GetStatus"
    IN  IF ~isdigit(year) THEN answered(year, op, 400, disk[year])
        ELSE LET r == tracking_by_date(disk[year].tracking, method, date, updates)
             IN  answered(year, op, r.status, [disk[year] EXCEPT !.tracking = r.file])

EnsureYearOf == \E year \in YearArgs : create_year_folder_of(year)
EnsureLedgerOf == \E year \in YearArgs : create_track_date_of(year)
ListLedgerOf == \E year \in YearArgs : read_tracking_sheet_of(year)
GetStatusOf == \E year \in YearArgs : manage_tracking_by_date_of(year, "GET", strftime(FirstDay), NoUpdates)
UpdateStatusOf ==
    \E year \in YearArgs, updates \in ConcUpdates :
        manage_tracking_by_date_of(year, "POST", strftime(FirstDay), updates)

NextYears ==
    \/ EnsureYearOf
    \/ EnsureLedgerOf
    \/ ListLedgerOf
    \/ GetStatusOf
    \/ UpdateStatusOf

SpecYears == Init /\ [][NextYears]_vars

(***************************************************************************)
(* The Reconciliation Drivers.  "per_date" is NSEDataDownloader.run of     *)
(* data_downloader.py (one GetStatus per date, then its download tasks);   *)
(* "slot_by_slot" is the __main__ of download_main.py (one loop over the   *)
(* calendar per slot, one GetStatus per date and slot).  The drivers call  *)
(* the Ledger Service one request at a time.                               *)
(***************************************************************************)
\* number of passes in one behaviour
MaxPasses == 2
\* number of failing service requests in one behaviour
MaxFaults == 1

Variants == {"per_date", "slot_by_slot"}

\* the file_key of download task number i
file_key(i) == "file_" \o ToString(i)

\* the artifact path a downloader returns for a date (cm_bc: output_dir/CM_..._<date>.csv)
output_file(i, date) == file_key(i) \o "/" \o date \o ".csv"

\* download_func(date): the path when the upstream has data, else None
download_func(i, d) == IF avail[<<d, i>>] THEN output_file(i, dates[d]) ELSE None

\* the lookup misses every key
dict_get_missing(row, key) == None

\* files_status.get(file_key) / data.get("data")[file_key]
dict_get(row, key) == IF key \in DOMAIN row THEN row[key] ELSE None

\* no slot is ever skipped
already_downloaded_never(v, status, row, key) == FALSE

\* does the attempt skip the slot as already downloaded
already_downloaded(v, status, row, key) ==
    IF v = "per_date" THEN Truthy(dict_get(row, key))
    ELSE status = 200 /\ Truthy(dict_get(row, key))

\* does the attempt write the downloader's result back
tracks_result(v, result) == IF v = "per_date" THEN Truthy(result) ELSE TRUE

\* a failed download is written as the empty string: file_data or ""
payload_value_or_empty(v, result) == IF result = None THEN "" ELSE result

\* the value of the UpdateStatus payload: str(file_data) / f"{file_data}"
payload_value(v, result) == str(result)

\* the cell of a date's row in a saved file, None when there is no such row
Cell(file, date, key) ==
    IF file = NoFile THEN None
    ELSE LET idx == target_row_idx(file, date)
         IN  IF idx = 0 THEN None ELSE file[idx][header_map(file[1])[key]]

\* the driver moves on to the next download task of the date (per_date)
\* or to the next (date, slot) attempt
NextTask ==
    IF variant = "per_date" /\ si < NumTasks
    THEN /\ si' = si + 1
         /\ dpc' = "check"
         /\ di' = di
    ELSE IF variant = "per_date"
         THEN /\ si' = 1
              /\ di' = IF di < NumDates THEN di + 1 ELSE di
              /\ dpc' = IF di < NumDates THEN "get" ELSE "done"
         ELSE IF di < NumDates
              THEN /\ di' = di + 1
                   /\ si' = si
                   /\ dpc' = "get"
              ELSE /\ di' = IF si < NumTasks THEN 1 ELSE di
                   /\ si' = IF si < NumTasks THEN si + 1 ELSE si
                   /\ dpc' = IF si < NumTasks THEN "get" ELSE "done"

\* download_main, loops 2 to 8: after the write the branch of a non-200 read
\* prints data.get("data")[file_key], which raises unless data is bound to a
\* row response; the exception is not caught and ends the script
PrintRaises == variant = "slot_by_slot" /\ rstatus # 200 /\ si >= 2 /\ data # "row"

\* run() / __main__: fetch the dates, GET track_date, start the loops
start_pass(v, av) ==
    /\ dpc \in {"idle", "done", "crashed"}
    /\ pass < MaxPasses
    /\ pass' = pass + 1
    /\ variant' = v
    /\ avail' = av
    /\ folder' = TRUE
    /\ tracking' = IF tracking = NoFile THEN wb_save(<<headers>>) ELSE tracking
    /\ data' = IF tracking = NoFile THEN "unbound" ELSE "no_data_key"
    /\ di' = 1
    /\ si' = 1
    /\ dpc' = "get"
    /\ rstatus' = 0
    /\ files_status' = NoRow
    /\ file_data' = None
    /\ obs' = [nposts |-> 0, sent |-> NoSent, invoked |-> {}, skipped |-> {},
               tried |-> {}, kinds |-> obs.kinds,
               prev_avail |-> avail, prev_variant |-> IF pass = 0 THEN "none" ELSE variant,
               prev_tracking |-> tracking, prev_dpc |-> dpc]
    /\ UNCHANGED <<ext_vars, last, pc, req, wb, calls, faults>>

\* get_tracking_status(date) / requests.get(url, json=payload)
get_tracking_status ==
    /\ dpc = "get"
    /\ LET r == tracking_by_date(tracking, "GET", dates[di], NoUpdates)
           idx == target_row_idx(tracking, dates[di])
       IN  /\ rstatus' = r.status
           /\ files_status' = IF r.status = 200 THEN found_data(tracking, idx) ELSE NoRow
           /\ data' = IF variant = "slot_by_slot" /\ r.status = 200 THEN "row" ELSE data
    /\ dpc' = "check"
    /\ obs' = [obs EXCEPT !.tried = @ \cup {<<di, si>>}]
    /\ UNCHANGED <<ext_vars, svc_vars, variant, pass, di, si, file_data, avail, faults>>

\* the read fails: no response (ConnectionError) or a 500 answer
get_tracking_fails(kind) ==
    /\ dpc = "get"
    /\ faults < MaxFaults
    /\ faults' = faults + 1
    /\ rstatus' = IF kind = "conn" THEN 0 ELSE 500
    /\ files_status' = NoRow
    /\ IF variant = "slot_by_slot" /\ kind = "conn"
       THEN NextTask
       ELSE dpc' = "check" /\ UNCHANGED <<di, si>>
    /\ obs' = [obs EXCEPT !.tried = @ \cup {<<di, si>>}, !.kinds = @ \cup {kind}]
    /\ UNCHANGED <<ext_vars, svc_vars, variant, pass, file_data, data, avail>>

\* if files_status.get(file_key): skip, else go and download
check_status ==
    /\ dpc = "check"
    /\ IF already_downloaded(variant, rstatus, files_status, file_key(si))
       THEN NextTask /\ obs' = [obs EXCEPT !.skipped = @ \cup {<<di, si>>},
                                            !.tried = @ \cup {<<di, si>>}]
       ELSE /\ dpc' = "download"
            /\ obs' = [obs EXCEPT !.tried = @ \cup {<<di, si>>}]
            /\ UNCHANGED <<di, si>>
    /\ UNCHANGED <<ext_vars, svc_vars, variant, pass, rstatus, files_status, file_data, data, avail, faults>>

\* file_data = download_func(date)
download ==
    /\ dpc = "download"
    /\ file_data' = download_func(si, di)
    /\ obs' = [obs EXCEPT !.invoked = @ \cup {<<di, si>>}]
    /\ IF tracks_result(variant, file_data')
       THEN dpc' = "post" /\ UNCHANGED <<di, si>>
       ELSE NextTask
    /\ UNCHANGED <<ext_vars, svc_vars, variant, pass, rstatus, files_status, data, avail, faults>>

Sent(value) ==
    [date |-> dates[di], key |-> file_key(si), value |-> value,
     was |-> Cell(tracking, dates[di], file_key(si))]

\* update_tracking_status(date, file_key, str(file_data)) / requests.post(url, json=payload)
update_tracking_status ==
    /\ dpc = "post"
    /\ LET value == payload_value(variant, file_data)
           r == tracking_by_date(tracking, "POST", dates[di], (file_key(si) :> value))
       IN  /\ tracking' = r.file
           /\ obs' = [obs EXCEPT !.nposts = @ + 1, !.sent = Sent(value)]
    /\ IF PrintRaises
       THEN dpc' = "crashed" /\ UNCHANGED <<di, si>>
       ELSE NextTask
    /\ UNCHANGED <<ext_vars, folder, last, pc, req, wb, calls,
                   variant, pass, rstatus, files_status, file_data, data, avail, faults>>

\* the write fails: no response (ConnectionError) or a 500 answer
update_tracking_fails(kind) ==
    /\ dpc = "post"
    /\ faults < MaxFaults
    /\ faults' = faults + 1
    /\ obs' = [obs EXCEPT !.nposts = @ + 1, !.sent = Sent(payload_value(variant, file_data)),
                           !.kinds = @ \cup {kind}]
    /\ IF PrintRaises /\ kind # "conn"
       THEN dpc' = "crashed" /\ UNCHANGED <<di, si>>
       ELSE NextTask
    /\ UNCHANGED <<ext_vars, svc_vars, variant, pass, rstatus, files_status, file_data, data, avail>>

\* the download task whose downloader starts with init_session(): file_3
uses_session(i) == i = 3

\* is a failure of the downloader swallowed by the code around the call:
\* data_downloader's wrappers catch Exception and return None on a failed
\* init_session; download_main catches only requests' ConnectionError, and
\* its download_cmoi calls exit(1) on a failed init_session
swallowed(v, kind) == IF v = "per_date" THEN TRUE ELSE kind = "conn"

\* download_func(date) fails: it raises a ConnectionError ("conn"), raises
\* another exception ("error"), or its session initialisation fails ("init")
download_fails(kind) ==
    /\ dpc = "download"
    /\ faults < MaxFaults
    /\ kind = "init" => uses_session(si)
    /\ faults' = faults + 1
    /\ file_data' = None
    /\ obs' = [obs EXCEPT !.invoked = @ \cup {<<di, si>>}, !.kinds = @ \cup {kind}]
    /\ IF swallowed(variant, kind)
       THEN NextTask
       ELSE dpc' = "crashed" /\ UNCHANGED <<di, si>>
    /\ UNCHANGED <<ext_vars, svc_vars, variant, pass, rstatus, files_status, data, avail>>

StartPass == \E v \in Variants, av \in Outcomes : start_pass(v, av)
DownloadFails == \E kind \in {"conn", "error", "init"} : download_fails(kind)
GetFails == \E kind \in {"conn", "500"} : get_tracking_fails(kind)
PostFails == \E kind \in {"conn", "500"} : update_tracking_fails(kind)

\* the passes with a Ledger Service that answers every request
NextPass ==
    \/ StartPass
    \/ get_tracking_status
    \/ check_status
    \/ download
    \/ update_tracking_status

SpecPass == Init /\ [][NextPass]_vars

\* the passes with a Ledger Service that may fail requests
NextDrv ==
    \/ StartPass
    \/ get_tracking_status
    \/ check_status
    \/ download
    \/ update_tracking_status
    \/ GetFails
    \/ PostFails

SpecDrv == Init /\ [][NextDrv]_vars

\* the passes with a Ledger Service that answers every request and
\* downloaders that may fail
NextDl ==
    \/ StartPass
    \/ get_tracking_status
    \/ check_status
    \/ download
    \/ update_tracking_status
    \/ DownloadFails

SpecDl == Init /\ [][NextDl]_vars

(***************************************************************************)
(* Driver instances running at the same time against the same year.  Each  *)
(* instance is a process of its own running one pass; the Ledger Service   *)
(* serves their requests one at a time, so a step of an instance is one    *)
(* whole request, or the instance's own work between two requests.         *)
(***************************************************************************)
\* the position after the attempt of (date d, slot s): NextTask as a function
next_task(v, d, s) ==
    IF v = "per_date" /\ s < NumTasks
    THEN [di |-> d, si |-> s + 1, dpc |-> "check"]
    ELSE IF v = "per_date"
         THEN [di |-> IF d < NumDates THEN d + 1 ELSE d, si |-> 1,
               dpc |-> IF d < NumDates THEN "get" ELSE "done"]
         ELSE IF d < NumDates
              THEN [di |-> d + 1, si |-> s, dpc |-> "get"]
              ELSE [di |-> IF s < NumTasks THEN 1 ELSE d,
                    si |-> IF s < NumTasks THEN s + 1 ELSE s,
                    dpc |-> IF s < NumTasks THEN "get" ELSE "done"]

\* the instance's record once it has moved on to its next attempt
advanced(r) ==
    LET n == next_task(r.v, r.di, r.si)
    IN  [r EXCEPT !.di = n.di, !.si = n.si, !.dpc = n.dpc]

\* run() / __main__ of instance k: GET track_date, then the loops; the
\* instances download from the same upstream
instance_start(k, v, av) ==
    /\ inst[k].dpc = "idle"
    /\ (\E j \in Instances : inst[j].dpc # "idle") => av = avail
    /\ avail' = av
    /\ folder' = TRUE
    /\ tracking' = track_date(tracking).file
    /\ inst' = [inst EXCEPT ![k] = [Idle EXCEPT !.v = v, !.dpc = "get",
                     !.data = IF tracking = NoFile THEN "unbound" ELSE "no_data_key"]]
    /\ UNCHANGED <<last, pc, req, wb, calls, issued, today, cal, disk, asked, file_list, pool>>
    /\ UNCHANGED <<variant, pass, dpc, di, si, rstatus, files_status, file_data, data, faults, obs>>

\* get_tracking_status(date) / requests.get(url, json=payload) of instance k
instance_get(k) ==
    /\ inst[k].dpc = "get"
    /\ LET r == tracking_by_date(tracking, "GET", dates[inst[k].di], NoUpdates)
           idx == target_row_idx(tracking, dates[inst[k].di])
       IN  inst' = [inst EXCEPT ![k].rstatus = r.status,
                                ![k].files_status = IF r.status = 200 THEN found_data(tracking, idx)
                                                    ELSE NoRow,
                                ![k].data = IF inst[k].v = "slot_by_slot" /\ r.status = 200
                                            THEN "row" ELSE @,
                                ![k].dpc = "check"]
    /\ UNCHANGED <<svc_vars, drv_vars, issued, today, cal, disk, asked, file_list, pool>>

\* if files_status.get(file_key): skip, else download_func(date); the
\* downloader's result is written back or dropped
instance_download(k) ==
    /\ inst[k].dpc = "check"
    /\ LET r == inst[k]
           result == download_func(r.si, r.di)
       IN  inst' = [inst EXCEPT ![k] =
                       IF already_downloaded(r.v, r.rstatus, r.files_status, file_key(r.si))
                       THEN advanced(r)
                       ELSE IF tracks_result(r.v, result)
                            THEN [r EXCEPT !.file_data = result, !.dpc = "post"]
                            ELSE advanced([r EXCEPT !.file_data = result])]
    /\ UNCHANGED <<svc_vars, drv_vars, issued, today, cal, disk, asked, file_list, pool>>

\* update_tracking_status(date, file_key, str(file_data)) / requests.post of
\* instance k; download_main then prints data.get("data")[file_key] in the
\* branch of a non-200 read
instance_update(k) ==
    /\ inst[k].dpc = "post"
    /\ LET r == inst[k]
           value == payload_value(r.v, r.file_data)
           res == tracking_by_date(tracking, "POST", dates[r.di], (file_key(r.si) :> value))
           raises == r.v = "slot_by_slot" /\ r.rstatus # 200 /\ r.si >= 2 /\ r.data # "row"
       IN  /\ tracking' = res.file
           /\ issued' = [issued EXCEPT ![<<r.di, r.si>>] = @ + 1]
           /\ inst' = [inst EXCEPT ![k] = IF raises THEN [r EXCEPT !.dpc = "crashed"]
                                          ELSE advanced(r)]
    /\ UNCHANGED <<folder, last, pc, req, wb, calls, drv_vars, today, cal, disk, asked, file_list, pool>>

InstanceStart == \E k \in Instances, v \in Variants, av \in Outcomes : instance_start(k, v, av)
InstanceGet == \E k \in Instances : instance_get(k)
InstanceDownload == \E k \in Instances : instance_download(k)
InstanceUpdate == \E k \in Instances : instance_update(k)

NextRace ==
    \/ InstanceStart
    \/ InstanceGet
    \/ InstanceDownload
    \/ InstanceUpdate

SpecRace == Init /\ [][NextRace]_vars

(***************************************************************************)
(* The Reporting Layer's view of the ledger: the list of the files of one  *)
(* slot, built from ListLedger while the drivers reconcile the year.       *)
(***************************************************************************)
\* the "data" of the ListLedger response: dict(zip(headers, row)) per data row
list_rows(file) == [i \in 1..(Len(file) - 1) |-> found_data(file, i + 1)]

\* [item["file_2"] for item in data.get("data", []) if "file_2" in item]
slot_values(rows, key) ==
    LET kept == SelectSeq(rows, LAMBDA item : key \in DOMAIN item)
    IN  [i \in DOMAIN kept |-> kept[i][key]]

\* fetch_file_list(year): GET /api/<year>/tracking; the list is set on a 200
fetch_file_list ==
    /\ file_list' = IF tracking = NoFile THEN file_list
                    ELSE slot_values(list_rows(tracking), "file_2")
    /\ UNCHANGED <<svc_vars, drv_vars, today, cal, disk, asked, inst, issued, pool>>

\* list_exp_start(files): the entries it reads with pd.read_csv, the
\* entries equal to 'None' being skipped
files_read(files) == SelectSeq(files, LAMBDA file_path : file_path # "None")

NextReport ==
    \/ StartPass
    \/ get_tracking_status
    \/ check_status
    \/ download
    \/ update_tracking_status
    \/ fetch_file_list

SpecReport == Init /\ [][NextReport]_vars

(***************************************************************************)
(* The Reporting Layer's pass over the symbols, in batches.  A task is     *)
(* "pending" once its batch has created it (the coroutine waits for the    *)
(* semaphore, the submitted call waits for a worker thread), "running"     *)
(* inside the guarded section, "finished" with its result record.          *)
(***************************************************************************)
\* batch = symbols[i:i + batch_size], as the positions of its symbols
batch_of(p) == {s \in 1..p.n : p.i < s /\ s <= p.i + p.batch_size}

\* the tasks that are inside the guarded section
running(p) == {s \in Symbols : p.task[s] = "running"}

\* the semaphore never holds a task back
locked_never(p) == FALSE

\* asyncio.Semaphore(MAX_WORKERS).locked() / every worker thread of
\* ThreadPoolExecutor(max_workers=MAX_WORKERS) is busy
locked(p) == Cardinality(running(p)) >= MAX_WORKERS

\* the result record of a symbol: _process_symbol_impl / process_single_symbol
\* turn an exception of the processing into a record of status error
symbol_result(symbol, raises) ==
    [symbol |-> symbol, status |-> IF raises THEN "error" ELSE "success"]

\* the records of the batch in the order they are collected
collected(p) ==
    IF p.kind = "async"
    THEN [k \in 1..Cardinality(batch_of(p)) |-> p.result[p.i + k]]
    ELSE [k \in DOMAIN p.completed |-> p.result[p.completed[k]]]

\* the record of a task that raised is lost
batch_results_without_raised(p) == SelectSeq(collected(p), LAMBDA r : r.status # "error")

\* process_symbols_batch: gather's results in the order of the symbols;
\* process_symbols_parallel: the futures' results in as_completed order
batch_results(p) == collected(p)

\* process_all_symbols / process_symbols_batched: the first batch is created
process_all_symbols(kind, n, batch_size, raising) ==
    /\ pool.pc = "idle"
    /\ LET p == [NoPool EXCEPT !.kind = kind, !.n = n, !.batch_size = batch_size,
                               !.raising = raising, !.pc = "batch"]
       IN  pool' = [p EXCEPT !.task = [s \in Symbols |-> IF s \in batch_of(p) THEN "pending"
                                                         ELSE "none"]]
    /\ UNCHANGED <<svc_vars, drv_vars, today, cal, disk, asked, inst, issued, file_list>>

\* process_symbol: async with self.semaphore / a worker thread takes the call
process_symbol(s) ==
    /\ pool.pc = "batch"
    /\ pool.task[s] = "pending"
    /\ ~locked(pool)
    /\ pool' = [pool EXCEPT !.task[s] = "running"]
    /\ UNCHANGED <<svc_vars, drv_vars, today, cal, disk, asked, inst, issued, file_list>>

\* _process_symbol_impl / process_single_symbol: the processing returns or
\* raises, the record is the task's result and the section is left
process_symbol_impl(s) ==
    /\ pool.task[s] = "running"
    /\ pool' = [pool EXCEPT !.task[s] = "finished",
                            !.result[s] = symbol_result(s, s \in pool.raising),
                            !.completed = IF pool.kind = "threads" THEN Append(@, s) ELSE @]
    /\ UNCHANGED <<svc_vars, drv_vars, today, cal, disk, asked, inst, issued, file_list>>

\* process_symbols_batch / process_symbols_parallel returns: every task of
\* the batch is finished; all_results.extend(batch_results)
process_symbols_batch ==
    /\ pool.pc = "batch"
    /\ \A s \in batch_of(pool) : pool.task[s] = "finished"
    /\ pool' = [pool EXCEPT !.all_results = @ \o batch_results(pool),
                            !.pc = IF pool.i + pool.batch_size < pool.n THEN "sleep" ELSE "done"]
    /\ UNCHANGED <<svc_vars, drv_vars, today, cal, disk, asked, inst, issued, file_list>>

\* the delay between batches is over: the loop creates the next batch
next_batch ==
    /\ pool.pc = "sleep"
    /\ LET p == [pool EXCEPT !.i = @ + pool.batch_size, !.completed = << >>, !.pc = "batch"]
       IN  pool' = [p EXCEPT !.task = [s \in Symbols |-> IF s \in batch_of(p) THEN "pending"
                                                         ELSE pool.task[s]]]
    /\ UNCHANGED <<svc_vars, drv_vars, today, cal, disk, asked, inst, issued, file_list>>

ProcessAllSymbols ==
    \E kind \in PoolKinds, n \in 1..MaxSymbols, batch_size \in 1..MaxBatchSize :
        \E raising \in SUBSET (1..n) : process_all_symbols(kind, n, batch_size, raising)
ProcessSymbol == \E s \in Symbols : process_symbol(s)
ProcessSymbolImpl == \E s \in Symbols : process_symbol_impl(s)

NextPool ==
    \/ ProcessAllSymbols
    \/ ProcessSymbol
    \/ ProcessSymbolImpl
    \/ process_symbols_batch
    \/ next_batch

SpecPool == Init /\ [][NextPool]_vars

\* the event loop runs every ready task and the executor's threads run every
\* submitted call: a step of the pass that stays possible is taken
SpecPoolFair == Init /\ [][NextPool]_vars /\ WF_vars(NextPool)

(***************************************************************************)
(* The claims.                                                             *)
(***************************************************************************)
\* two UpdateStatus requests whose handlers ran at the same time
Simultaneous(t, u) == u \in req[t].with \/ t \in req[u].with

\* the UpdateStatus call of thread t has returned success
Returned(t) == pc[t] = "done" /\ req[t].op = "UpdateStatus" /\ req[t].status \in {200, 201}

\* the ledger holds the row and the slot values thread t's call wrote
Persisted(t) == \A key \in DOMAIN req[t].updates :
                    Cell(tracking, req[t].date, key) = req[t].updates[key]

\* C1: once two simultaneous UpdateStatus calls for different dates of the
\* year have both returned, the ledger holds the row and the slot value
\* written by each of them.
C1_DifferentDatesBothPersist ==
    \A t, u \in Threads :
        (t # u /\ Returned(t) /\ Returned(u) /\ Simultaneous(t, u) /\ req[t].date # req[u].date)
            => (Persisted(t) /\ Persisted(u))

\* C2: once two simultaneous UpdateStatus calls for the same date that name
\* different slots have both returned, the row holds both slot values.
C2_SameDateDifferentSlotsBothPersist ==
    \A t, u \in Threads :
        (t # u /\ Returned(t) /\ Returned(u) /\ Simultaneous(t, u)
             /\ req[t].date = req[u].date
             /\ DOMAIN req[t].updates \cap DOMAIN req[u].updates = {})
            => (Persisted(t) /\ Persisted(u))

\* a cell or a given value that counts as Empty
IsEmpty(v) == v = None \/ v = ""

\* the column of a header name
Col(name) == header_map(headers)[name]

\* the last request was an UpdateStatus that answered success
Updated == last.op = "UpdateStatus" /\ last.status \in {200, 201}

\* the row of the request's date in the file as it was before the request
RowBefore == target_row_idx(last.before, last.date)

\* C3: UpdateStatus on an existing row leaves every cell of that row that the
\* update mapping does not name, and every other row of the ledger, as it was
\* before the call.
C3_PartialUpdatePreservesOthers ==
    (Updated /\ RowBefore # 0) =>
        /\ Len(tracking) = Len(last.before)
        /\ \A r \in 1..Len(last.before) : r # RowBefore => tracking[r] = last.before[r]
        /\ \A name \in Range(headers) :
               name \notin DOMAIN last.updates =>
                   tracking[RowBefore][Col(name)] = last.before[RowBefore][Col(name)]

\* an update of one slot of a row whose other slot was filled, next to another row
C3_Witness ==
    /\ Updated /\ RowBefore # 0
    /\ Len(tracking) = 3
    /\ \E a, b \in UpdateKeys :
           /\ DOMAIN last.updates = {a} /\ b # a
           /\ Truthy(last.before[RowBefore][Col(b)])
           /\ Truthy(last.before[RowBefore][Col(a)])
           /\ tracking[RowBefore][Col(a)] # last.before[RowBefore][Col(a)]

\* C4: an UpdateStatus that repeats the call before it (same date, same
\* mapping) leaves the ledger, its rows and all their cells, as the first call
\* left it, whether the first call created the row or updated it.
C4_RepeatedUpdateIsIdempotent ==
    (Updated /\ last.repeat /\ last.prev_status \in {200, 201}) => tracking = last.before

\* the same one-slot update applied twice to a date that had no row
C4_Witness ==
    /\ Updated /\ last.repeat /\ last.prev_status = 201
    /\ \E a \in UpdateKeys : DOMAIN last.updates = {a} /\ Truthy(last.updates[a])
    /\ Len(tracking) = 3

\* C5: UpdateStatus for a date without a row answers 201 and appends exactly
\* one row: its date is the requested date, each named slot holds the given
\* value (is Empty when the given value is empty), each unnamed slot is
\* Empty; for a date with a row it answers 200 and appends nothing.
C5_CreatedOrUpdated ==
    Updated =>
        IF RowBefore = 0
        THEN /\ last.status = 201
             /\ Len(tracking) = Len(last.before) + 1
             /\ SubSeq(tracking, 1, Len(last.before)) = last.before
             /\ LET row == tracking[Len(tracking)]
                IN  /\ row[Col("date")] = last.date
                    /\ \A name \in Range(headers) \ {"date"} :
                           IF name \in DOMAIN last.updates /\ Truthy(last.updates[name])
                           THEN row[Col(name)] = last.updates[name]
                           ELSE IsEmpty(row[Col(name)])
        ELSE /\ last.status = 200
             /\ Len(tracking) = Len(last.before)

\* a row created after another one, with one slot given and one not
C5_Witness ==
    /\ Updated /\ RowBefore = 0 /\ last.status = 201
    /\ Len(last.before) = 2
    /\ \E a \in UpdateKeys : DOMAIN last.updates = {a} /\ Truthy(last.updates[a])

\* the cells a pass covers
Cells == (1..NumDates) \X (1..NumTasks)

\* the ledger cell of a (date index, slot index)
Slot(file, c) == Cell(file, dates[c[1]], file_key(c[2]))

\* this step issues an UpdateStatus call
IssuesUpdate == obs'.nposts = obs.nposts + 1

\* this step invokes the downloader for cell c
InvokesDownloader(c) == dpc = "download" /\ dpc' # "download" /\ c = <<di, si>>

\* C6: no step of a reconciliation pass turns a non-empty slot into an empty
\* one, and no UpdateStatus call a pass issues for a non-empty slot carries an
\* empty value.
C6_NeverFilledToEmpty ==
    [][ /\ \A c \in Cells : Truthy(Slot(tracking, c)) => Truthy(Slot(tracking', c))
        /\ (IssuesUpdate /\ Truthy(obs'.sent.was)) => Truthy(obs'.sent.value) ]_vars

\* a pass has issued an UpdateStatus call for a slot that was non-empty
C6_Witness == obs.nposts > 0 /\ Truthy(obs.sent.was)

\* a pass of a driver has completed after a completed pass of the same driver
SecondPassDone ==
    /\ pass >= 2 /\ dpc = "done"
    /\ obs.prev_dpc = "done" /\ obs.prev_variant = variant

\* C7: with the Ledger Service answering every request, a slot whose
\* downloader returned None in the first pass and a path in the second pass
\* holds that path after the second pass.
C7_RetryFillsSlot ==
    SecondPassDone =>
        \A c \in Cells :
            (~obs.prev_avail[c] /\ avail[c]) => Slot(tracking, c) = output_file(c[2], dates[c[1]])

WeekdayOutcomes(av) == \A d \in 1..NumDates : av[<<d, 1>>] = (weekday(FirstDay + d - 1) < 5)

\* C9: after one pass from a ledger without rows in which the file_1
\* downloader returns a path on every weekday and None on every weekend day,
\* file_1 is non-empty for exactly the weekday dates.
C9_WeekdaysFilledWeekendsEmpty ==
    (pass = 1 /\ dpc = "done" /\ WeekdayOutcomes(avail)) =>
        \A d \in 1..NumDates :
            Truthy(Slot(tracking, <<d, 1>>)) <=> (weekday(FirstDay + d - 1) < 5)

DateOf(file, r) == file[r][header_map(file[1])["date"]]

\* C11: no two rows of the ledger have the same date value, whatever keys
\* the update mappings of the requests contained.
C11_DatesUnique ==
    \A i, j \in 2..Len(tracking) : i # j => DateOf(tracking, i) # DateOf(tracking, j)

\* C12: an UpdateStatus call, whatever keys its mapping contains, leaves the
\* date of every existing row as it was, and the row it creates carries the
\* requested date.
C12_DateImmutable ==
    Updated =>
        /\ \A r \in 2..Len(last.before) : DateOf(tracking, r) = DateOf(last.before, r)
        /\ RowBefore = 0 => DateOf(tracking, Len(tracking)) = last.date

C14_DatesCompleteAndCounted ==
    cal.status = 200 =>
        LET first == toordinal(cal.requested_year - 1, 10, 1)
            n == Len(cal.dates)
        IN  /\ cal.total_days = n
            /\ n > 0
            /\ cal.dates[1] = cal.range_start /\ cal.dates[n] = cal.range_end
            /\ \A i \in 1..n : cal.dates[i] = strftime(first + i - 1)
            /\ Cardinality(Range(cal.dates)) = n
            /\ ~cal.is_current_year =>
                   /\ n = 92 + (IF is_leap(cal.requested_year) THEN 366 ELSE 365)
                   /\ cal.requested_year = 2026 => n = 457

\* the calendar of 2026 asked for in another year
C14_Witness ==
    /\ cal.status = 200 /\ cal.requested_year = 2026 /\ ~cal.is_current_year
    /\ cal.total_days = 457
    /\ cal.dates[457] = "2026-12-31"

\* C15: today's date is never a member of the generated calendar, for a past,
\* the current or a future requested year.
C15_TodayNeverListed ==
    cal.status = 200 => strftime(today) \notin Range(cal.dates)

\* a year argument that is a number of four digits
WellFormed(year) == Len(year) = 4 /\ \A i \in DOMAIN year : year[i] \in Digits

\* C16: a request whose year argument is not a well-formed 4-digit number is
\* answered 400 and creates no folder, no ledger and no row.
C16_MalformedYearRejected ==
    (asked.op # "none" /\ ~WellFormed(asked.year)) =>
        (asked.status = 400 /\ disk = asked.before)

\* C17: EnsureYear for a year whose folder exists, and EnsureLedger for a
\* year whose ledger exists, answer 200 and leave the folder, the header and
\* every row of the ledger as they were.
C17_EnsureIsIdempotent ==
    /\ (last.op = "EnsureYear" /\ last.was_folder) =>
           (last.status = 200 /\ folder /\ tracking = last.before)
    /\ (last.op = "EnsureLedger" /\ last.before # NoFile) =>
           (last.status = 200 /\ folder /\ tracking = last.before)

\* EnsureLedger called on a ledger that holds two rows with filled slots
C17_Witness ==
    /\ last.op = "EnsureLedger" /\ last.status = 200
    /\ Len(last.before) = 3
    /\ \E r \in 2..3, key \in UpdateKeys : Truthy(last.before[r][Col(key)])

\* C18: ListLedger, GetStatus and UpdateStatus for a year without ledger
\* answer 404 and create neither the ledger nor a row, also after EnsureYear.
C18_NotFoundWithoutLedger ==
    (last.op \in {"ListLedger", "GetStatus", "UpdateStatus"} /\ last.before = NoFile) =>
        (last.status = 404 /\ tracking = NoFile)

\* an UpdateStatus with a slot value, after EnsureYear created the folder
\* and before any EnsureLedger
C18_Witness ==
    /\ last.op = "UpdateStatus" /\ last.before = NoFile /\ last.was_folder
    /\ \E key \in UpdateKeys : key \in DOMAIN last.updates /\ Truthy(last.updates[key])
    /\ last.status = 404

\* C19: a failure of a downloader (a None result, a raised error, a failed
\* session initialisation) never ends the pass early: the pass runs to its
\* end and has then attempted every (date, slot).
C19_DownloaderFailureNeverAborts ==
    pass >= 1 => (dpc # "crashed" /\ (dpc = "done" => obs.tried = Cells))

C21_CellWrittenOnce == \A c \in Cells : issued[c] <= 1

\* C22: under every interleaving of the service's handlers, EnsureLedger
\* calls racing with UpdateStatus calls included, the date of every
\* UpdateStatus call that has returned success has a row in the ledger.
C22_RowNeverDeleted ==
    \A t \in Threads : Returned(t) => target_row_idx(tracking, req[t].date) # 0

\* the value a first pass of driver v, over a ledger without rows, leaves in
\* cell c: the payload of its UpdateStatus call, nothing when it issues none
left_by(v, c) ==
    LET result == download_func(c[2], c[1])
    IN  IF tracks_result(v, result) THEN payload_value(v, result) ELSE None

\* C23: for the same calendar and the same downloader outcomes, the first
\* pass of either driver over a ledger without rows leaves each cell as
\* left_by says, and the two drivers leave every cell with the same
\* Filled / Empty status and the same value.
C23_VariantsAgree ==
    (pass = 1 /\ dpc = "done") =>
        \A c \in Cells :
            /\ Slot(tracking, c) = left_by(variant, c)
            /\ \A v \in Variants :
                   /\ Truthy(left_by(v, c)) = Truthy(Slot(tracking, c))
                   /\ left_by(v, c) = Slot(tracking, c)

\* C24: when a reconciliation pass has run to its end, each (date, slot) of
\* the calendar and the driver's slots has been attempted in that pass:
\* either skipped as already non-empty or passed to its downloader, not both
\* and not neither.
C24_EachCellAttemptedOnce ==
    dpc = "done" => \A c \in Cells : (c \in obs.skipped) # (c \in obs.invoked)

\* the paths of the artifacts the downloaders of slot i have produced
Artifacts(i) == {output_file(i, dates[d]) : d \in 1..NumDates}

\* C25: the file list the Reporting Layer builds from ListLedger for file_2
\* holds only completed file paths: every entry it goes on to read names a
\* downloaded artifact, none stands for a row whose slot is Empty.
C25_FileListOnlyCompleted ==
    \A i \in DOMAIN files_read(file_list) : files_read(file_list)[i] \in Artifacts(2)

\* the pass has returned exactly one record per input symbol: error for a
\* symbol whose processing raised, success for every other
OneRecordPerSymbol ==
    /\ Len(pool.all_results) = pool.n
    /\ \A s \in 1..pool.n :
           \E k \in DOMAIN pool.all_results :
               pool.all_results[k] = symbol_result(s, s \in pool.raising)

\* C26: a worker that raises does not deadlock or cut short the pool: a
\* batched pass that has started terminates, and it returns exactly one result
\* record per input symbol, error for each symbol whose processing raised and
\* success for every other.
C26_RaisingWorkerKeepsPool ==
    /\ (pool.pc = "batch") ~> (pool.pc = "done")
    /\ [](pool.pc = "done" => OneRecordPerSymbol)

\* a pass of two batches has ended, a symbol
\* of each batch having raised and another having succeeded
C26_Witness ==
    /\ pool.pc = "done" /\ pool.i > 0
    /\ \E s \in pool.raising : s <= pool.batch_size
    /\ \E s \in pool.raising : s > pool.batch_size
    /\ \E s \in 1..pool.n : s \notin pool.raising
    /\ OneRecordPerSymbol

\* the batch a symbol belongs to
batch_number(s) == (s - 1) \div pool.batch_size

\* C27: in the async pass at most MAX_WORKERS symbol tasks are inside the
\* semaphore-guarded section at any moment, whatever the number of symbols
\* and the batch size, and no task of a batch has been created before every
\* task of the batches before it has finished.
C27_BoundedAndBatchOrdered ==
    pool.kind = "async" =>
        /\ Cardinality(running(pool)) <= MAX_WORKERS
        /\ \A s, u \in 1..pool.n :
               (batch_number(s) < batch_number(u) /\ pool.task[u] # "none")
                   => pool.task[s] = "finished"

\* in the second batch of an async pass the semaphore is exhausted and holds
\* a task back
C27_Witness ==
    /\ pool.kind = "async" /\ pool.pc = "batch" /\ pool.i > 0
    /\ Cardinality(running(pool)) = MAX_WORKERS
    /\ \E s \in batch_of(pool) : pool.task[s] = "pending"

\* the column names of the ledger
ColumnSet == {"date"} \cup {"file_" \o ToString(i) : i \in 1..11}

\* C28: after any sequence of service operations the ledger's columns are
\* exactly date, file_1, ..., file_11 and every row is as wide; an update key
\* outside this set adds no column and changes no cell of an existing row: a
\* cell of an existing row differs after an UpdateStatus only if the mapping
\* names its column.
C28_ColumnSetFixed ==
    /\ tracking # NoFile =>
           /\ Len(tracking[1]) = 12
           /\ Range(tracking[1]) = ColumnSet
           /\ \A r \in DOMAIN tracking : Len(tracking[r]) = 12
    /\ Updated =>
           /\ Len(tracking) >= Len(last.before)
           /\ \A r \in 2..Len(last.before) : \A c \in 1..12 :
                  tracking[r][c] # last.before[r][c] => tracking[1][c] \in DOMAIN last.updates

\* an UpdateStatus naming a key that is no column, and a slot, has updated a
\* row whose slots held values
C28_Witness ==
    /\ Updated /\ RowBefore # 0
    /\ DOMAIN last.updates = {"colour", "file_1"}
    /\ Truthy(last.before[RowBefore][Col("file_1")])
    /\ tracking[RowBefore][Col("file_1")] # last.before[RowBefore][Col("file_1")]
    /\ Len(tracking) >= 3

\* C29: GetStatus and ListLedger never modify the ledger: after a GET on a
\* tracking endpoint the file is as it was before the request, every row
\* unchanged and no row created, also when the GET carried a JSON body of
\* slot values.
C29_ReadsLeaveLedger ==
    last.op \in {"GetStatus", "ListLedger"} => tracking = last.before

\* a status read that carried a slot value for a date without row, in a
\* ledger that has a row of another date, has answered 404
C29_Witness ==
    /\ last.op = "GetStatus" /\ last.status = 404
    /\ \E key \in DOMAIN last.updates : Truthy(last.updates[key])
    /\ Len(tracking) = 2
    /\ target_row_idx(tracking, last.date) = 0

\* C30: an UpdateStatus with an empty update mapping, its JSON body empty or
\* missing, on a year that has a ledger answers 400 and leaves the ledger as
\* it was, whether the date has a row or not.
C30_EmptyUpdateRejected ==
    (last.op = "UpdateStatus" /\ last.updates = NoUpdates /\ last.before # NoFile) =>
        (last.status = 400 /\ tracking = last.before)

====
